---- MODULE Spec2Model ----
(***************************************************************************)
(* Model of the website monitoring bot in main.py: the in-memory           *)
(* registries user_data and jobs, the sqlite table tasks, the job queue,   *)
(* the three per-user conversations and the scheduled check_website job.   *)
(*                                                                         *)
(* Handlers run one update at a time; a handler or a job that awaits a     *)
(* network send (reply_text, send_message) between two writes is split at  *)
(* that await, so that jobs of the queue can run in between.               *)
(*                                                                         *)
(* Lines 113, 175, 447 and 458 of main.py end in "user_"; the model reads  *)
(* them as the tests on user_data and context.user_data that the lines     *)
(* below them call for.                                                    *)
(***************************************************************************)
EXTENDS Integers, FiniteSets, Sequences, TLC

\* ---------------------------------------------------------------- bounds
\* handles the job queue can hold at once
MaxJobs == 3
\* updates (commands and texts of the owner) and restarts in one behaviour
MaxTurns == 4
\* the same, where the owner works on one task name
MaxTurnsOne == 7
\* the same, for the claims that five updates decide
MaxTurnsShort == 5

Owners == {1}
Names == {"a", "b"}
Urls == {"u1", "u2"}
Selectors == {"s1", "s2"}
Snapshots == {"x", "y"}

JobIds == 1..MaxJobs

\* ------------------------------------------------------------- constants
None == "None"
NoOwner == 0
NoJob == 0

\* conversation states (range(7)) and ConversationHandler.END
END == "END"
TASK_NAME == "TASK_NAME"
URL == "URL"
SELECTOR == "SELECTOR"
SELECT_TASK_TO_DELETE == "SELECT_TASK_TO_DELETE"
SELECT_TASK_TO_UPDATE == "SELECT_TASK_TO_UPDATE"
UPDATE_URL == "UPDATE_URL"
UPDATE_SELECTOR == "UPDATE_SELECTOR"

\* outcomes of requests.get + select_one + str(element)
FetchError == "FetchError"
NotFound == "NotFound"
FetchResults == Snapshots \cup {FetchError, NotFound}

\* texts the owner may send at the "new value" steps of Update
SkipTexts == {"skip", "SKIP"}

VARIABLES
    user_data,          \* owner -> [present, tasks: name -> task dict]
    jobs,               \* owner -> [present, reg: name -> job id or NoJob]
    tasks_db,           \* table tasks: owner -> name -> row
    job_queue,          \* job id -> [scheduled, user_id, task_name]
    running,            \* job id -> check_website suspended at send_message
    conversations,      \* owner -> state of each ConversationHandler
    context_user_data,  \* owner -> [task_name, task_to_update]
    awaiting,           \* the handler suspended at its reply_text
    flow,               \* owner -> what the Update flow in progress started from
    turns,              \* updates and restarts the behaviour has left
    names,              \* the task names the owner types
    ev                  \* the last step taken and what it emitted

vars == <<user_data, jobs, tasks_db, job_queue, running, conversations,
          context_user_data, awaiting, flow, turns, names, ev>>

\* ----------------------------------------------------------- task dicts
\* a dict of user_data[user_id]["tasks"]; a missing key is None
NoTask == [has |-> FALSE, url |-> None, selector |-> None, initial_state |-> None]
EmptyTask == [has |-> TRUE, url |-> None, selector |-> None, initial_state |-> None]
NoRow == [has |-> FALSE, url |-> None, selector |-> None, initial_state |-> None]

NoTasks == [n \in Names |-> NoTask]
NoUser == [present |-> FALSE, tasks |-> NoTasks]
NewUser == [present |-> TRUE, tasks |-> NoTasks]
NoJobs == [present |-> FALSE, reg |-> [n \in Names |-> NoJob]]
NewJobs == [present |-> TRUE, reg |-> [n \in Names |-> NoJob]]

FreeJob == [scheduled |-> FALSE, user_id |-> NoOwner, task_name |-> None]
NotRunning == [active |-> FALSE, user_id |-> NoOwner, task_name |-> None,
               current_state |-> None]
NoConversation == [add |-> END, del |-> END, upd |-> END]
NoContext == [task_name |-> None, task_to_update |-> None]
NotAwaiting == [handler |-> None, user_id |-> NoOwner, task_name |-> None,
                url |-> None, selector |-> None, success |-> FALSE,
                message |-> None, result |-> None]
NoFlow == [before |-> NoTask, skip_url |-> FALSE, skip_selector |-> FALSE]

\* ev names the last step: the handler or job that ran (op), how it ended
\* (outcome: the reply it sent, or what the poll found), whether it sent a
\* change notification to the owner (notified) and whether it ended in an
\* uncaught exception (raised)
NoEvent == [op |-> "init", outcome |-> None, notified |-> FALSE, raised |-> FALSE]
Event(op, outcome) == [NoEvent EXCEPT !.op = op, !.outcome = outcome]

\* an uncaught exception leaves the conversation in its state
Raise(op) == [NoEvent EXCEPT !.op = op, !.outcome = "raised", !.raised = TRUE]

\* an update of the owner, or a restart, takes one of the turns that are
\* left; a handler that resumes after its reply and a job take none
Spend == turns > 0 /\ turns' = turns - 1 /\ UNCHANGED names
Free == UNCHANGED <<turns, names>>

\* ---------------------------------------------------------------- reads
HasUser(ud, o) == ud[o].present
HasTask(ud, o, n) == ud[o].present /\ ud[o].tasks[n].has
TaskOf(ud, o, n) == ud[o].tasks[n]
TaskNames(ud, o) == {n \in Names : HasTask(ud, o, n)}
HasJobEntry(jb, o, n) == jb[o].present /\ jb[o].reg[n] # NoJob
JobEntries(jb, o) == {n \in Names : HasJobEntry(jb, o, n)}
LiveJobs(jq, o, n) ==
    {j \in JobIds : jq[j].scheduled /\ jq[j].user_id = o /\ jq[j].task_name = n}
Lower(text) == IF text \in SkipTexts THEN "skip" ELSE text

\* the job queue hands out a handle that no scheduled or running job holds
IsFree(j) ==
    /\ ~job_queue[j].scheduled
    /\ ~running[j].active
    /\ \A o \in Owners, n \in Names : jobs[o].reg[n] # j
CanSchedule == \E j \in JobIds : IsFree(j)
NewJob == CHOOSE j \in JobIds : IsFree(j) /\ \A k \in JobIds : IsFree(k) => j <= k

\* ------------------------------------------------------------- dispatch
\* Application.process_update takes one update at a time, and the first
\* handler of main() that accepts it handles it: add_conv_handler, then
\* delete_conv_handler, then update_conv_handler.  A ConversationHandler
\* in a state accepts a text for that state and /cancel; one that is in no
\* conversation accepts its entry command only.
Idle == awaiting.handler = None
InAdd(o) == conversations[o].add # END
InDelete(o) == conversations[o].del # END
InUpdate(o) == conversations[o].upd # END
TextToAdd(o, state) == Idle /\ conversations[o].add = state
TextToDelete(o, state) == Idle /\ ~InAdd(o) /\ conversations[o].del = state
TextToUpdate(o, state) ==
    Idle /\ ~InAdd(o) /\ ~InDelete(o) /\ conversations[o].upd = state

\* ------------------------------------------------------------ the table
\* db_add_task: INSERT; the primary key (user_id, task_name) rejects a
\* second row for the key
db_add_task(db, o, n, url, selector, initial_state) ==
    [db EXCEPT ![o][n] = [has |-> TRUE, url |-> url, selector |-> selector,
                          initial_state |-> initial_state]]

\* db_update_task: UPDATE ... WHERE user_id = ? AND task_name = ?
db_update_task(db, o, n, url, selector, initial_state) ==
    IF db[o][n].has
    THEN [db EXCEPT ![o][n] = [has |-> TRUE, url |-> url, selector |-> selector,
                               initial_state |-> initial_state]]
    ELSE db

\* db_update_task_state: UPDATE tasks SET initial_state = ? WHERE ...
db_update_task_state(db, o, n, new_state) ==
    IF db[o][n].has THEN [db EXCEPT ![o][n].initial_state = new_state] ELSE db

\* db_delete_task: DELETE FROM tasks WHERE ...
db_delete_task(db, o, n) == [db EXCEPT ![o][n] = NoRow]

\* ------------------------------------------------- setup_monitoring_task
\* the job queue's run_repeating(check_website, data = {user_id, task_name})
run_repeating(jq, j, o, n) ==
    [jq EXCEPT ![j] = [scheduled |-> TRUE, user_id |-> o, task_name |-> n]]

\* a removal that leaves the job in the queue
removal_keeps_job(jq, j) == jq

\* job.schedule_removal()
schedule_removal(jq, j) == [jq EXCEPT ![j] = FreeJob]

\* setup_monitoring_task for a task that user_data holds: r is the outcome
\* of the fetch and the selection, j the handle run_repeating returns.
\* The result is (success, message) and the registries as it leaves them.
setup_arms_before_select(ud, jb, jq, o, n, r, j) ==
    [success |-> r \in Snapshots,
     message |-> IF r = FetchError THEN "fetch_error"
                 ELSE IF r = NotFound THEN "not_found" ELSE "started",
     user_data |-> IF r \in Snapshots
                   THEN [ud EXCEPT ![o].tasks[n].initial_state = r] ELSE ud,
     jobs |-> [jb EXCEPT ![o].reg[n] = j],
     job_queue |-> run_repeating(jq, j, o, n),
     new_job |-> j, result |-> r]
setup_monitoring_task(ud, jb, jq, o, n, r, j) ==
    LET task == TaskOf(ud, o, n)
        failed(msg) == [success |-> FALSE, message |-> msg, user_data |-> ud,
                        jobs |-> jb, job_queue |-> jq, new_job |-> NoJob,
                        result |-> IF msg = "missing" THEN None ELSE r]
        ud1 == [ud EXCEPT ![o].tasks[n].initial_state = r]
        jq1 == run_repeating(jq, j, o, n)
    IN  IF task.url = None \/ task.selector = None
        THEN failed("missing")
        ELSE IF r = FetchError THEN failed("fetch_error")
        ELSE IF r = NotFound THEN failed("not_found")
        ELSE IF ~jb[o].present
             \* jobs[user_id][task_name] = job raises KeyError inside the try
             THEN [success |-> FALSE, message |-> "fetch_error", user_data |-> ud1,
                   jobs |-> jb, job_queue |-> jq1, new_job |-> j, result |-> r]
             ELSE [success |-> TRUE, message |-> "started", user_data |-> ud1,
                   jobs |-> [jb EXCEPT ![o].reg[n] = j], job_queue |-> jq1,
                   new_job |-> j, result |-> r]

\* ----------------------------------------------------------- Create flow
\* /add
add_task(o) ==
    /\ Spend
    /\ Idle /\ ~InAdd(o)
    /\ conversations' = [conversations EXCEPT ![o].add = TASK_NAME]
    /\ ev' = Event("add_task", "ask_name")
    /\ UNCHANGED <<user_data, jobs, tasks_db, job_queue, running,
                   context_user_data, awaiting, flow>>

\* a name step that takes every name, used or not
receive_task_name_any(o, task_name) ==
    /\ Spend
    /\ TextToAdd(o, TASK_NAME)
    /\ user_data' = [user_data EXCEPT ![o] =
                       [present |-> TRUE,
                        tasks |-> [user_data[o].tasks EXCEPT
                                     ![task_name] = EmptyTask]]]
    /\ jobs' = IF jobs[o].present THEN jobs ELSE [jobs EXCEPT ![o] = NewJobs]
    /\ context_user_data' =
         [context_user_data EXCEPT ![o].task_name = task_name]
    /\ conversations' = [conversations EXCEPT ![o].add = URL]
    /\ ev' = Event("receive_task_name", "ask_url")
    /\ UNCHANGED <<tasks_db, job_queue, running, awaiting, flow>>

receive_task_name(o, task_name) ==
    /\ Spend
    /\ TextToAdd(o, TASK_NAME)
    /\ LET ud1 == IF HasUser(user_data, o) THEN user_data
                  ELSE [user_data EXCEPT ![o] = NewUser]
           jb1 == IF jobs[o].present THEN jobs ELSE [jobs EXCEPT ![o] = NewJobs]
       IN  /\ jobs' = jb1
           /\ IF HasTask(ud1, o, task_name)
              THEN /\ user_data' = ud1
                   /\ ev' = Event("receive_task_name", "name_exists")
                   /\ UNCHANGED <<conversations, context_user_data>>
              ELSE /\ user_data' = [ud1 EXCEPT ![o].tasks[task_name] = EmptyTask]
                   /\ context_user_data' =
                        [context_user_data EXCEPT ![o].task_name = task_name]
                   /\ conversations' = [conversations EXCEPT ![o].add = URL]
                   /\ ev' = Event("receive_task_name", "ask_url")
    /\ UNCHANGED <<tasks_db, job_queue, running, awaiting, flow>>

receive_url(o, url) ==
    /\ Spend
    /\ TextToAdd(o, URL)
    /\ LET task_name == context_user_data[o].task_name
       IN  IF task_name = None \/ ~HasTask(user_data, o, task_name)
           THEN /\ ev' = Raise("receive_url")
                /\ UNCHANGED <<user_data, conversations>>
           ELSE /\ user_data' = [user_data EXCEPT ![o].tasks[task_name].url = url]
                /\ conversations' = [conversations EXCEPT ![o].add = SELECTOR]
                /\ ev' = Event("receive_url", "ask_selector")
    /\ UNCHANGED <<jobs, tasks_db, job_queue, running, context_user_data,
                   awaiting, flow>>

\* receive_selector up to its first reply_text
receive_selector(o, selector, r) ==
    /\ Spend
    /\ TextToAdd(o, SELECTOR)
    /\ CanSchedule
    /\ LET task_name == context_user_data[o].task_name
       IN  IF task_name = None \/ ~HasTask(user_data, o, task_name)
           THEN /\ ev' = Raise("receive_selector")
                /\ UNCHANGED <<user_data, jobs, job_queue, awaiting>>
           ELSE LET ud1 == [user_data EXCEPT
                              ![o].tasks[task_name].selector = selector]
                    s == setup_monitoring_task(ud1, jobs, job_queue, o,
                                               task_name, r, NewJob)
                IN  /\ user_data' = s.user_data
                    /\ jobs' = s.jobs
                    /\ job_queue' = s.job_queue
                    /\ awaiting' = [NotAwaiting EXCEPT
                                      !.handler = "receive_selector",
                                      !.user_id = o, !.task_name = task_name,
                                      !.url = TaskOf(ud1, o, task_name).url,
                                      !.selector = selector,
                                      !.success = s.success,
                                      !.message = s.message,
                                      !.result = s.result]
                    /\ ev' = Event("receive_selector", s.message)
    /\ UNCHANGED <<tasks_db, running, conversations, context_user_data, flow>>

\* receive_selector after that reply_text: db_add_task on success, the
\* clean up otherwise.  db_ok tells whether sqlite accepts the write.
receive_selector_done(db_ok) ==
    /\ Free
    /\ awaiting.handler = "receive_selector"
    /\ awaiting' = NotAwaiting
    /\ LET o == awaiting.user_id
           task_name == awaiting.task_name
           task == TaskOf(user_data, o, task_name)
           done == Event("receive_selector_done", awaiting.message)
       IN  IF awaiting.success
           THEN IF tasks_db[o][task_name].has \/ ~db_ok
                THEN /\ ev' = Raise("receive_selector_done")
                     /\ UNCHANGED <<user_data, tasks_db, conversations,
                                    context_user_data>>
                ELSE /\ tasks_db' = db_add_task(tasks_db, o, task_name, task.url,
                                                task.selector, task.initial_state)
                     /\ context_user_data' =
                          [context_user_data EXCEPT ![o].task_name = None]
                     /\ conversations' = [conversations EXCEPT ![o].add = END]
                     /\ ev' = done
                     /\ UNCHANGED user_data
           ELSE LET ud1 == [user_data EXCEPT ![o].tasks[task_name] = NoTask]
                IN  /\ user_data' = IF TaskNames(ud1, o) = {}
                                    THEN [ud1 EXCEPT ![o] = NoUser] ELSE ud1
                    /\ conversations' = [conversations EXCEPT ![o].add = END]
                    /\ ev' = done
                    /\ UNCHANGED <<tasks_db, context_user_data>>
    /\ UNCHANGED <<jobs, job_queue, running, flow>>

\* ------------------------------------------------------------ Delete flow
\* /delete
delete_task(o) ==
    /\ Spend
    /\ Idle /\ ~InDelete(o)
    /\ IF TaskNames(user_data, o) = {}
       THEN /\ ev' = Event("delete_task", "no_tasks")
            /\ UNCHANGED conversations
       ELSE /\ conversations' =
                 [conversations EXCEPT ![o].del = SELECT_TASK_TO_DELETE]
            /\ ev' = Event("delete_task", "ask_task")
    /\ UNCHANGED <<user_data, jobs, tasks_db, job_queue, running,
                   context_user_data, awaiting, flow>>

receive_task_to_delete(o, task_name) ==
    /\ Spend
    /\ TextToDelete(o, SELECT_TASK_TO_DELETE)
    /\ LET job == jobs[o].reg[task_name]
           jb1 == [jobs EXCEPT ![o].reg[task_name] = NoJob]
           ud1 == [user_data EXCEPT ![o].tasks[task_name] = NoTask]
       IN  /\ IF HasJobEntry(jobs, o, task_name)
              THEN /\ job_queue' = schedule_removal(job_queue, job)
                   /\ jobs' = IF JobEntries(jb1, o) = {}
                              THEN [jb1 EXCEPT ![o] = NoJobs] ELSE jb1
              ELSE UNCHANGED <<job_queue, jobs>>
           /\ IF HasTask(user_data, o, task_name)
              THEN /\ user_data' = IF TaskNames(ud1, o) = {}
                                   THEN [ud1 EXCEPT ![o] = NoUser] ELSE ud1
                   /\ tasks_db' = db_delete_task(tasks_db, o, task_name)
                   /\ ev' = Event("receive_task_to_delete", "deleted")
              ELSE /\ ev' = Event("receive_task_to_delete", "not_found")
                   /\ UNCHANGED <<user_data, tasks_db>>
    /\ conversations' = [conversations EXCEPT ![o].del = END]
    /\ UNCHANGED <<running, context_user_data, awaiting, flow>>

\* ------------------------------------------------------------ Update flow
\* /update
update_task(o) ==
    /\ Spend
    /\ Idle /\ ~InUpdate(o)
    /\ IF TaskNames(user_data, o) = {}
       THEN /\ ev' = Event("update_task", "no_tasks")
            /\ UNCHANGED conversations
       ELSE /\ conversations' =
                 [conversations EXCEPT ![o].upd = SELECT_TASK_TO_UPDATE]
            /\ ev' = Event("update_task", "ask_task")
    /\ UNCHANGED <<user_data, jobs, tasks_db, job_queue, running,
                   context_user_data, awaiting, flow>>

select_task_to_update(o, task_name) ==
    /\ Spend
    /\ TextToUpdate(o, SELECT_TASK_TO_UPDATE)
    /\ IF ~HasTask(user_data, o, task_name)
       THEN /\ ev' = Event("select_task_to_update", "not_found")
            /\ UNCHANGED <<context_user_data, conversations, flow>>
       ELSE /\ context_user_data' =
                 [context_user_data EXCEPT ![o].task_to_update = task_name]
            /\ IF TaskOf(user_data, o, task_name).url = None
               THEN \* old_url = ...["url"] raises KeyError
                    /\ ev' = Raise("select_task_to_update")
                    /\ UNCHANGED <<conversations, flow>>
               ELSE /\ conversations' =
                         [conversations EXCEPT ![o].upd = UPDATE_URL]
                    /\ flow' = [flow EXCEPT ![o] =
                                  [NoFlow EXCEPT
                                     !.before = TaskOf(user_data, o, task_name)]]
                    /\ ev' = Event("select_task_to_update", "ask_new_url")
    /\ UNCHANGED <<user_data, jobs, tasks_db, job_queue, running, awaiting>>

receive_new_url(o, new_url) ==
    /\ Spend
    /\ TextToUpdate(o, UPDATE_URL)
    /\ LET task_name == context_user_data[o].task_to_update
           skip == Lower(new_url) = "skip"
           ud1 == IF skip THEN user_data
                  ELSE [user_data EXCEPT ![o].tasks[task_name].url = new_url]
       IN  IF task_name = None
           THEN /\ ev' = Raise("receive_new_url")
                /\ UNCHANGED <<user_data, conversations, flow>>
           ELSE IF ~HasTask(user_data, o, task_name)
           THEN /\ ev' = Raise("receive_new_url")
                /\ UNCHANGED <<user_data, conversations, flow>>
           ELSE IF TaskOf(user_data, o, task_name).selector = None
           THEN \* the url is written, then old_selector raises KeyError
                /\ user_data' = ud1
                /\ ev' = Raise("receive_new_url")
                /\ UNCHANGED <<conversations, flow>>
           ELSE /\ user_data' = ud1
                /\ conversations' =
                     [conversations EXCEPT ![o].upd = UPDATE_SELECTOR]
                /\ flow' = [flow EXCEPT ![o].skip_url = skip]
                /\ ev' = Event("receive_new_url", "ask_new_selector")
    /\ UNCHANGED <<jobs, tasks_db, job_queue, running, context_user_data,
                   awaiting>>

\* receive_new_selector_and_update up to its reply_text
receive_new_selector_and_update(o, new_selector, r) ==
    /\ Spend
    /\ TextToUpdate(o, UPDATE_SELECTOR)
    /\ CanSchedule
    /\ LET task_name == context_user_data[o].task_to_update
           skip == Lower(new_selector) = "skip"
           ud1 == IF skip THEN user_data
                  ELSE [user_data EXCEPT
                          ![o].tasks[task_name].selector = new_selector]
           old == IF task_name = None THEN NoJob ELSE jobs[o].reg[task_name]
           stop == task_name # None /\ HasJobEntry(jobs, o, task_name)
           jb1 == IF stop THEN [jobs EXCEPT ![o].reg[task_name] = NoJob] ELSE jobs
           jq1 == IF stop THEN schedule_removal(job_queue, old) ELSE job_queue
           s == setup_monitoring_task(ud1, jb1, jq1, o, task_name, r, NewJob)
       IN  IF task_name = None
           THEN /\ ev' = Raise("receive_new_selector_and_update")
                /\ UNCHANGED <<user_data, jobs, job_queue, awaiting>>
           ELSE IF ~HasTask(user_data, o, task_name)
           THEN \* a new selector raises KeyError at once, "skip" stops the
                \* old job first and raises in setup_monitoring_task
                /\ ev' = Raise("receive_new_selector_and_update")
                /\ jobs' = IF skip THEN jb1 ELSE jobs
                /\ job_queue' = IF skip THEN jq1 ELSE job_queue
                /\ UNCHANGED <<user_data, awaiting>>
           ELSE /\ user_data' = s.user_data
                /\ jobs' = s.jobs
                /\ job_queue' = s.job_queue
                /\ awaiting' = [NotAwaiting EXCEPT
                                  !.handler = "receive_new_selector_and_update",
                                  !.user_id = o, !.task_name = task_name,
                                  !.url = TaskOf(ud1, o, task_name).url,
                                  !.selector = TaskOf(ud1, o, task_name).selector,
                                  !.success = s.success, !.message = s.message,
                                  !.result = s.result]
                /\ ev' = Event("receive_new_selector_and_update", s.message)
    /\ flow' = IF context_user_data[o].task_to_update # None
                  /\ HasTask(user_data, o, context_user_data[o].task_to_update)
               THEN [flow EXCEPT ![o].skip_selector = Lower(new_selector) = "skip"]
               ELSE flow
    /\ UNCHANGED <<tasks_db, running, conversations, context_user_data>>

\* receive_new_selector_and_update after that reply_text
receive_new_selector_and_update_done(db_ok) ==
    /\ Free
    /\ awaiting.handler = "receive_new_selector_and_update"
    /\ awaiting' = NotAwaiting
    /\ LET o == awaiting.user_id
           task_name == awaiting.task_name
           task == TaskOf(user_data, o, task_name)
           done == Event("receive_new_selector_and_update_done", awaiting.message)
       IN  IF awaiting.success /\ ~db_ok
           THEN /\ ev' = Raise("receive_new_selector_and_update_done")
                /\ UNCHANGED <<tasks_db, conversations, context_user_data, flow>>
           ELSE /\ tasks_db' =
                     IF awaiting.success
                     THEN db_update_task(tasks_db, o, task_name, task.url,
                                         task.selector, task.initial_state)
                     ELSE tasks_db
                /\ context_user_data' =
                     [context_user_data EXCEPT ![o].task_to_update = None]
                /\ conversations' = [conversations EXCEPT ![o].upd = END]
                /\ flow' = [flow EXCEPT ![o] = NoFlow]
                /\ ev' = done
    /\ UNCHANGED <<user_data, jobs, job_queue, running>>

\* ----------------------------------------------------------------- cancel
\* /cancel, the fallback of the three conversations: the first of them
\* that is in a state takes it and ends
cancel(o) ==
    /\ Spend
    /\ Idle
    /\ InAdd(o) \/ InDelete(o) \/ InUpdate(o)
    /\ LET task_name == context_user_data[o].task_name
           placeholder == /\ task_name # None
                          /\ HasTask(user_data, o, task_name)
                          /\ TaskOf(user_data, o, task_name) = EmptyTask
       IN  /\ user_data' = IF placeholder
                           THEN [user_data EXCEPT ![o].tasks[task_name] = NoTask]
                           ELSE user_data
           /\ ev' = Event("cancel", "cancelled")
    /\ context_user_data' = [context_user_data EXCEPT ![o] = NoContext]
    /\ conversations' =
         IF InAdd(o) THEN [conversations EXCEPT ![o].add = END]
         ELSE IF InDelete(o) THEN [conversations EXCEPT ![o].del = END]
         ELSE [conversations EXCEPT ![o].upd = END]
    /\ flow' = IF ~InAdd(o) /\ ~InDelete(o)
               THEN [flow EXCEPT ![o] = NoFlow] ELSE flow
    /\ UNCHANGED <<jobs, tasks_db, job_queue, running, awaiting>>

\* ------------------------------------------------------------------ /list
list_tasks(o) ==
    /\ Spend
    /\ Idle
    /\ ev' = IF TaskNames(user_data, o) = {}
             THEN Event("list_tasks", "no_tasks")
             ELSE IF \E n \in TaskNames(user_data, o) :
                        \/ TaskOf(user_data, o, n).url = None
                        \/ TaskOf(user_data, o, n).selector = None
             THEN Raise("list_tasks")
             ELSE Event("list_tasks", "tasks")
    /\ UNCHANGED <<user_data, jobs, tasks_db, job_queue, running, conversations,
                   context_user_data, awaiting, flow>>

\* ---------------------------------------------------------- check_website
\* what a poll finds: no element or an exception of the fetch, an element
\* whose text differs from initial_state, or the same text
poll_same_as_changed(result, initial_state) ==
    IF result \notin Snapshots THEN "failed" ELSE "changed"
poll_failed_as_changed(result, initial_state) ==
    IF result \in Snapshots /\ result = initial_state THEN "same" ELSE "changed"
compare_states(result, initial_state) ==
    IF result \notin Snapshots THEN "failed"
    ELSE IF result # initial_state THEN "changed"
    ELSE "same"

\* check_website up to send_message.  The scheduler runs one instance of a
\* job at a time.  r is the outcome of the fetch and the selection.
check_website(j, r) ==
    /\ Free
    /\ job_queue[j].scheduled
    /\ ~running[j].active
    /\ LET o == job_queue[j].user_id
           task_name == job_queue[j].task_name
           task == TaskOf(user_data, o, task_name)
           \* requests.get(None) and select_one(None) raise inside the try
           result == IF task.url = None \/ task.selector = None
                     THEN FetchError ELSE r
           found == compare_states(result, task.initial_state)
           changed == found = "changed"
       IN  IF ~HasTask(user_data, o, task_name)
           THEN /\ job_queue' = schedule_removal(job_queue, j)
                /\ ev' = Event("check_website", "stopped")
                /\ UNCHANGED running
           ELSE /\ ev' = Event("check_website", found)
                /\ running' =
                     IF changed
                     THEN [running EXCEPT ![j] =
                             [active |-> TRUE, user_id |-> o,
                              task_name |-> task_name,
                              current_state |-> result]]
                     ELSE running
                /\ UNCHANGED job_queue
    /\ UNCHANGED <<user_data, jobs, tasks_db, conversations, context_user_data,
                   awaiting, flow>>

\* check_website from send_message on: sent tells whether the send went
\* through; if it raises, the except clause logs it
check_website_sent(j, sent) ==
    /\ Free
    /\ running[j].active
    /\ running' = [running EXCEPT ![j] = NotRunning]
    /\ LET o == running[j].user_id
           task_name == running[j].task_name
           current_state == running[j].current_state
       IN  /\ ev' = [Event("check_website_sent",
                            IF sent THEN "sent" ELSE "send_failed")
                        EXCEPT !.notified = sent]
           /\ IF sent /\ HasTask(user_data, o, task_name)
              THEN /\ user_data' = [user_data EXCEPT
                        ![o].tasks[task_name].initial_state = current_state]
                   /\ tasks_db' = db_update_task_state(tasks_db, o, task_name,
                                                       current_state)
              ELSE UNCHANGED <<user_data, tasks_db>>
    /\ UNCHANGED <<jobs, job_queue, conversations, context_user_data, awaiting,
                   flow>>

\* ------------------------------------------------------------------- main
\* the rows of the table, in the order load_tasks_from_db takes them
NameOrder == <<"a", "b">>
Keys == {<<o, i>> : o \in Owners, i \in 1..Len(NameOrder)}
Before(k1, k2) == k1[1] < k2[1] \/ (k1[1] = k2[1] /\ k1[2] < k2[2])
Rows(db) == {k \in Keys : db[k[1]][NameOrder[k[2]]].has}
RowIndex(db, k) == Cardinality({k2 \in Rows(db) : Before(k2, k)}) + 1
RowAt(db, j) == CHOOSE k \in Rows(db) : RowIndex(db, k) = j

\* a loader that rebuilds the registries' owners but neither the tasks nor
\* their jobs
load_without_jobs(db) ==
    [user_data |-> [o \in Owners |->
                      IF \E n \in Names : db[o][n].has THEN NewUser ELSE NoUser],
     jobs |-> [o \in Owners |->
                 IF \E n \in Names : db[o][n].has THEN NewJobs ELSE NoJobs],
     job_queue |-> [j \in JobIds |-> FreeJob]]

\* load_tasks_from_db: every row becomes an entry of user_data and a job
load_tasks_from_db(db) ==
    [user_data |->
        [o \in Owners |->
            IF \E n \in Names : db[o][n].has
            THEN [present |-> TRUE,
                  tasks |-> [n \in Names |->
                               IF db[o][n].has
                               THEN [has |-> TRUE, url |-> db[o][n].url,
                                     selector |-> db[o][n].selector,
                                     initial_state |-> db[o][n].initial_state]
                               ELSE NoTask]]
            ELSE NoUser],
     jobs |->
        [o \in Owners |->
            IF \E n \in Names : db[o][n].has
            THEN [present |-> TRUE,
                  reg |-> [n \in Names |->
                             IF db[o][n].has
                             THEN RowIndex(db, <<o, CHOOSE i \in 1..Len(NameOrder) :
                                                       NameOrder[i] = n>>)
                             ELSE NoJob]]
            ELSE NoJobs],
     job_queue |->
        [j \in JobIds |->
            IF j <= Cardinality(Rows(db))
            THEN [scheduled |-> TRUE, user_id |-> RowAt(db, j)[1],
                  task_name |-> NameOrder[RowAt(db, j)[2]]]
            ELSE FreeJob]]

\* the process stops at any point and main() starts it again: the table
\* is what is left, the registries are built from it
main ==
    /\ Spend
    /\ Cardinality(Rows(tasks_db)) <= MaxJobs
    /\ LET loaded == load_tasks_from_db(tasks_db)
       IN  /\ user_data' = loaded.user_data
           /\ jobs' = loaded.jobs
           /\ job_queue' = loaded.job_queue
    /\ running' = [j \in JobIds |-> NotRunning]
    /\ conversations' = [o \in Owners |-> NoConversation]
    /\ context_user_data' = [o \in Owners |-> NoContext]
    /\ awaiting' = NotAwaiting
    /\ flow' = [o \in Owners |-> NoFlow]
    /\ ev' = Event("main", "loaded")
    /\ UNCHANGED tasks_db

\* The table is what earlier runs left in it: rows as db_add_task writes
\* them, for some of the names NS that the owner types; main() has loaded
\* it.  The behaviour has N updates and restarts.
StoredRow == [has |-> TRUE, url |-> "u1", selector |-> "s1", initial_state |-> "x"]
InitOn(NS, N) ==
    /\ \E S \in SUBSET NS :
          tasks_db = [o \in Owners |-> [n \in Names |->
                        IF n \in S THEN StoredRow ELSE NoRow]]
    /\ user_data = load_tasks_from_db(tasks_db).user_data
    /\ jobs = load_tasks_from_db(tasks_db).jobs
    /\ job_queue = load_tasks_from_db(tasks_db).job_queue
    /\ running = [j \in JobIds |-> NotRunning]
    /\ conversations = [o \in Owners |-> NoConversation]
    /\ context_user_data = [o \in Owners |-> NoContext]
    /\ awaiting = NotAwaiting
    /\ flow = [o \in Owners |-> NoFlow]
    /\ turns = N
    /\ names = NS
    /\ ev = NoEvent

\* an update of the owner or a restart; a handler resumes after its
\* reply; a job of the queue runs
Next ==
    \/ \E o \in Owners : add_task(o)
    \/ \E o \in Owners, n \in names : receive_task_name(o, n)
    \/ \E o \in Owners, u \in Urls : receive_url(o, u)
    \/ \E o \in Owners, s \in Selectors, r \in FetchResults :
          receive_selector(o, s, r)
    \/ \E ok \in BOOLEAN : receive_selector_done(ok)
    \/ \E o \in Owners : delete_task(o)
    \/ \E o \in Owners, n \in names : receive_task_to_delete(o, n)
    \/ \E o \in Owners : update_task(o)
    \/ \E o \in Owners, n \in names : select_task_to_update(o, n)
    \/ \E o \in Owners, u \in Urls \cup SkipTexts : receive_new_url(o, u)
    \/ \E o \in Owners, s \in Selectors \cup SkipTexts, r \in FetchResults :
          receive_new_selector_and_update(o, s, r)
    \/ \E ok \in BOOLEAN : receive_new_selector_and_update_done(ok)
    \/ \E o \in Owners : cancel(o)
    \/ \E o \in Owners : list_tasks(o)
    \/ \E j \in JobIds, r \in FetchResults : check_website(j, r)
    \/ \E j \in JobIds, sent \in BOOLEAN : check_website_sent(j, sent)
    \/ main

\* Spec: the owner works on two task names, for MaxTurns updates
Init == InitOn(Names, MaxTurns)
Spec == Init /\ [][Next]_vars

\* SpecOne: the owner works on one task name, for MaxTurnsOne updates
InitOne == InitOn({"a"}, MaxTurnsOne)
SpecOne == InitOne /\ [][Next]_vars

\* SpecShort: the owner works on one task name, for MaxTurnsShort updates
InitShort == InitOn({"a"}, MaxTurnsShort)
SpecShort == InitShort /\ [][Next]_vars

\* ================================================================ claims
Row(o, n) == tasks_db[o][n]
Stored(url, selector, snapshot) ==
    [has |-> TRUE, url |-> url, selector |-> selector, initial_state |-> snapshot]
Armed(jq, o, n) == LiveJobs(jq, o, n) # {}
\* the terminal step of Create or Update is suspended at its reply
InTerminalStep == awaiting.handler # None

\* C1: outside the terminal step of Create and Update, a key has a row in
\* the table if and only if a scheduled job is bound to it
C1_StoreIffJob ==
    ~InTerminalStep =>
        \A o \in Owners, n \in Names : Row(o, n).has <=> Armed(job_queue, o, n)

\* ------------------------------------------------------------------- C2
\* the last step was the end of a Create whose validation succeeded
CreateDone ==
    ev.op = "receive_selector_done" /\ ev.outcome = "started" /\ ~ev.raised

\* C2: when Create ends after a validation that extracted S, the row and
\* the in-memory entry of the key hold the url and the selector that were
\* validated and last_snapshot = S, and one job is armed for the key
C2_CreateStoresValidated ==
    [][CreateDone' =>
        LET o == awaiting.user_id
            n == awaiting.task_name
            t == Stored(awaiting.url, awaiting.selector, awaiting.result)
        IN  /\ tasks_db'[o][n] = t
            /\ TaskOf(user_data', o, n) = t
            /\ Cardinality(LiveJobs(job_queue', o, n)) = 1]_vars

\* ------------------------------------------------------------------- C3
\* the tasks of owner o other than n, and all jobs, stay as they are
OthersUnchanged(o, n) ==
    /\ \A m \in Names \ {n} : TaskOf(user_data', o, m) = TaskOf(user_data, o, m)
    /\ \A p \in Owners \ {o} : user_data'[p] = user_data[p]
    /\ UNCHANGED <<jobs, job_queue>>

\* C3: the terminal step of Create whose validation gets NotFound or
\* FetchError writes no row, arms no job, removes the in-memory entry of
\* the task and leaves the other tasks and the jobs as they are; the
\* conversation ends
C3_CreateFailureDiscards ==
    [][/\ \A o \in Owners, s \in Selectors, r \in {NotFound, FetchError} :
            receive_selector(o, s, r) /\ awaiting'.handler # None =>
                /\ ~awaiting'.success
                /\ awaiting'.result = r
                /\ OthersUnchanged(o, awaiting'.task_name)
                /\ UNCHANGED tasks_db
       /\ ( /\ awaiting.handler = "receive_selector"
            /\ awaiting.result \in {NotFound, FetchError}
            /\ ev'.op = "receive_selector_done" ) =>
                LET o == awaiting.user_id
                    n == awaiting.task_name
                IN  /\ ~tasks_db'[o][n].has
                    /\ ~HasTask(user_data', o, n)
                    /\ OthersUnchanged(o, n)
                    /\ UNCHANGED tasks_db
                    /\ conversations'[o].add = END]_vars

\* a Create has just ended on NotFound while the owner has a stored task
C3_Witness ==
    /\ ev.op = "receive_selector_done" /\ ev.outcome = "not_found"
    /\ \E o \in Owners, m \in Names :
          /\ conversations[o].add = END
          /\ Row(o, m).has /\ HasTask(user_data, o, m) /\ Armed(job_queue, o, m)
          /\ \E n \in Names \ {m} : ~HasTask(user_data, o, n) /\ ~Row(o, n).has

\* ------------------------------------------------------------------- C4
\* C4: a poll of a stored task that extracts S1, other than its snapshot,
\* sets the snapshot in memory and in the row to S1 when it ends, so that
\* the next poll extracting S1 finds no change and sends nothing
C4_ChangeStoresSnapshot ==
    [][\A j \in JobIds, sent \in BOOLEAN :
          LET o == running[j].user_id
              n == running[j].task_name
              S1 == running[j].current_state
          IN  ( /\ check_website_sent(j, sent)
                /\ HasTask(user_data, o, n) /\ Row(o, n).has ) =>
                  /\ TaskOf(user_data', o, n).initial_state = S1
                  /\ tasks_db'[o][n].initial_state = S1
                  /\ compare_states(S1, TaskOf(user_data', o, n).initial_state)
                        = "same"]_vars

\* ------------------------------------------------------------------- C5
\* the poll of job j extracts r from the page of an existing task
Polls(j, r) ==
    /\ check_website(j, r)
    /\ HasTask(user_data, job_queue[j].user_id, job_queue[j].task_name)

\* C5: a poll whose extraction equals the snapshot of the task sends no
\* notification and changes neither the registries, the table, nor the
\* job queue; so polls of an unchanged page keep one snapshot
C5_UnchangedPollIsSilent ==
    [][\A j \in JobIds, r \in Snapshots :
          LET o == job_queue[j].user_id
              n == job_queue[j].task_name
          IN  Polls(j, r) /\ TaskOf(user_data, o, n).initial_state = r =>
                /\ ~ev'.notified
                /\ ~running'[j].active
                /\ UNCHANGED <<user_data, tasks_db, jobs, job_queue, running>>]_vars

\* a poll of a stored task has just found its page unchanged
C5_Witness ==
    /\ ev.op = "check_website" /\ ev.outcome = "same"
    /\ \E o \in Owners, n \in Names :
          /\ Row(o, n).has /\ Row(o, n) = TaskOf(user_data, o, n)
          /\ Armed(job_queue, o, n)

\* ------------------------------------------------------------------ C10
\* C10: a poll that ends in FetchError or NotFound sends no notification,
\* changes neither the in-memory task nor the row, and leaves its job
\* scheduled: the task exists and is polled again
C10_FailingPollIsTolerated ==
    [][\A j \in JobIds, r \in {FetchError, NotFound} :
          LET o == job_queue[j].user_id
              n == job_queue[j].task_name
          IN  Polls(j, r) =>
                /\ ~ev'.notified
                /\ ~running'[j].active
                /\ UNCHANGED <<user_data, tasks_db, jobs, job_queue, running>>
                /\ job_queue'[j].scheduled
                /\ HasTask(user_data', o, n)]_vars

\* a poll of a stored task has just failed
C10_Witness ==
    /\ ev.op = "check_website" /\ ev.outcome = "failed"
    /\ \E o \in Owners, n \in Names :
          /\ Row(o, n).has /\ Row(o, n) = TaskOf(user_data, o, n)
          /\ Armed(job_queue, o, n)

\* ------------------------------------------------------------------- C6
\* C6: when Delete ends for an existing task, the task is in neither the
\* in-memory registry nor the table and no scheduled job is bound to its
\* key; a job that fires for a key without a task sends nothing, writes
\* nothing and leaves the queue
C6_DeleteRemovesTaskAndJob ==
    [][/\ \A o \in Owners, n \in Names :
            receive_task_to_delete(o, n) /\ HasTask(user_data, o, n) =>
                /\ ~HasTask(user_data', o, n)
                /\ ~tasks_db'[o][n].has
                /\ LiveJobs(job_queue', o, n) = {}
       /\ \A j \in JobIds, r \in FetchResults :
            ( /\ check_website(j, r)
              /\ ~HasTask(user_data, job_queue[j].user_id,
                          job_queue[j].task_name) ) =>
                /\ ~ev'.notified
                /\ ~running'[j].active
                /\ ~job_queue'[j].scheduled
                /\ UNCHANGED <<user_data, tasks_db>>]_vars

\* a Delete has just removed a stored task
C6_Witness ==
    /\ ev.op = "receive_task_to_delete" /\ ev.outcome = "deleted"
    /\ \E o \in Owners, n \in Names :
          ~HasTask(user_data, o, n) /\ ~Row(o, n).has /\ ~Armed(job_queue, o, n)

\* ------------------------------------------------------------------- C7
\* the terminal step of Update for (o, n) is suspended at its reply after
\* a validation that succeeded
UpdateValidated(o, n) ==
    /\ awaiting.handler = "receive_new_selector_and_update"
    /\ awaiting.user_id = o /\ awaiting.task_name = n
    /\ awaiting.success

\* C7: a successful Update cancels the job that was armed for the key and
\* arms exactly one new job, the registered one; the entry that polls read
\* holds the new url, the new selector and the snapshot of the validation,
\* and from then on only polls of the new job change it
C7_UpdateReplacesJob ==
    [][/\ \A o \in Owners, s \in Selectors \cup SkipTexts, r \in FetchResults :
            receive_new_selector_and_update(o, s, r) /\ awaiting'.success =>
                LET n == awaiting'.task_name
                    old == jobs[o].reg[n]
                IN  /\ old # NoJob => ~job_queue'[old].scheduled
                    /\ jobs'[o].reg[n] # old
                    /\ LiveJobs(job_queue', o, n) = {jobs'[o].reg[n]}
                    /\ TaskOf(user_data', o, n) =
                         Stored(awaiting'.url, awaiting'.selector, r)
       /\ \A o \in Owners, n \in Names :
            ( /\ UpdateValidated(o, n)
              /\ TaskOf(user_data', o, n) # TaskOf(user_data, o, n) ) =>
                \E j \in JobIds :
                    /\ j = jobs[o].reg[n]
                    /\ check_website_sent(j, TRUE)]_vars

\* ------------------------------------------------------------------- C8
\* the last step was the end of the terminal step of Update
UpdateDone ==
    ev.op = "receive_new_selector_and_update_done" /\ ~ev.raised

\* C8: when an Update in which the owner sent "skip" at both steps ends,
\* the row and the in-memory entry hold the url and the selector they held
\* before the flow, and after a validation that succeeded their snapshot
\* is the extraction of that validation
C8_SkipBothKeepsTask ==
    [][UpdateDone' =>
        LET o == awaiting.user_id
            n == awaiting.task_name
            before == flow[o].before
            row == tasks_db'[o][n]
            task == TaskOf(user_data', o, n)
        IN  flow[o].skip_url /\ flow[o].skip_selector =>
                /\ row.has /\ task.has
                /\ row.url = before.url /\ row.selector = before.selector
                /\ task.url = before.url /\ task.selector = before.selector
                /\ awaiting.success =>
                      /\ row.initial_state = awaiting.result
                      /\ task.initial_state = awaiting.result]_vars

\* ------------------------------------------------------------------- C9
\* C9: when the terminal step of Update ends after a validation that got
\* NotFound or FetchError, no job is scheduled for the key and the row and
\* the in-memory entry hold the url and the selector they held before the
\* flow, with one snapshot
C9_FailedUpdateKeepsTask ==
    [][UpdateDone' /\ awaiting.result \in {NotFound, FetchError} =>
        LET o == awaiting.user_id
            n == awaiting.task_name
            before == flow[o].before
            row == tasks_db'[o][n]
            task == TaskOf(user_data', o, n)
        IN  /\ LiveJobs(job_queue', o, n) = {}
            /\ row.has /\ task.has
            /\ row.url = before.url /\ row.selector = before.selector
            /\ task.url = before.url /\ task.selector = before.selector
            /\ task.initial_state = row.initial_state]_vars

\* ------------------------------------------------------------------ C11
\* C11: when a poll of a stored task has extracted S1, other than its
\* snapshot, and the send of the notification fails, the snapshot in
\* memory and in the row is S1 all the same
C11_SendFailureStillStores ==
    [][\A j \in JobIds :
          LET o == running[j].user_id
              n == running[j].task_name
              S1 == running[j].current_state
          IN  ( /\ check_website_sent(j, FALSE)
                /\ HasTask(user_data, o, n) /\ Row(o, n).has ) =>
                  /\ TaskOf(user_data', o, n).initial_state = S1
                  /\ tasks_db'[o][n].initial_state = S1]_vars

\* ------------------------------------------------------------------ C12
\* the terminal step of Create or Update has just failed to write its row
PersistFailed ==
    /\ ev.raised
    /\ ev.op \in {"receive_selector_done", "receive_new_selector_and_update_done"}

\* C12: when the write of the row fails in Create or Update, no job is
\* scheduled for a key without a row, and a row that has a job holds the
\* url and the selector that the job polls
C12_NoJobWithoutRow ==
    PersistFailed =>
        \A o \in Owners, n \in Names :
            Armed(job_queue, o, n) =>
                /\ Row(o, n).has
                /\ Row(o, n).url = TaskOf(user_data, o, n).url
                /\ Row(o, n).selector = TaskOf(user_data, o, n).selector

\* ------------------------------------------------------------------ C13
\* C13: /cancel ends the conversation that takes it and empties the
\* session of the owner; the task that a Create in progress has built so
\* far is no longer in user_data, so that receive_task_name accepts its
\* name again
C13_CancelDiscardsSession ==
    [][\A o \in Owners :
          cancel(o) =>
              LET n == context_user_data[o].task_name
              IN  /\ context_user_data'[o] = NoContext
                  /\ InAdd(o) => conversations'[o].add = END
                  /\ ~InAdd(o) /\ InDelete(o) => conversations'[o].del = END
                  /\ ~InAdd(o) /\ ~InDelete(o) => conversations'[o].upd = END
                  /\ InAdd(o) /\ n # None => ~HasTask(user_data', o, n)]_vars

\* ------------------------------------------------------------------ C14
\* the keys that a scheduled job of the queue polls
Polled(jq) == {k \in Owners \X Names : Armed(jq, k[1], k[2])}

\* main() has loaded the table: user_data holds the rows and nothing
\* else, each row has one scheduled job, the registered one, and no other
\* key has a job
Recovered ==
    \A o \in Owners, n \in Names :
        /\ HasTask(user_data, o, n) <=> Row(o, n).has
        /\ Row(o, n).has =>
              /\ TaskOf(user_data, o, n) = Row(o, n)
              /\ Cardinality(LiveJobs(job_queue, o, n)) = 1
              /\ LiveJobs(job_queue, o, n) = {jobs[o].reg[n]}
        /\ ~Row(o, n).has => LiveJobs(job_queue, o, n) = {}

\* C14: after a restart at any point the registry equals the table, one
\* job is scheduled for each row and none for another key, and the keys
\* polled after the restart are the keys that were polled before it
C14_RestartRestoresPolling ==
    [][main => Recovered' /\ Polled(job_queue') = Polled(job_queue)]_vars

\* C14, amended: after a restart at any point the registry equals the
\* table, one job is scheduled for each row and none for another key: the
\* keys polled after the restart are the keys of the rows, whatever was
\* polled before it
C14_RestartLoadsTable ==
    [][main => /\ Recovered'
               /\ Polled(job_queue') =
                    {k \in Owners \X Names : tasks_db[k[1]][k[2]].has}]_vars

\* a restart has just loaded a table that holds a row which a conversation
\* of this behaviour has written, and the row's task is polled
C14_Witness ==
    /\ ev.op = "main"
    /\ \E o \in Owners, n \in Names :
          /\ Row(o, n).has /\ Row(o, n).url = "u2"
          /\ Armed(job_queue, o, n)

\* C15: a firing that finds no task under its key in the Task Store (the
\* in-memory registry check_website reads) removes its own job and does
\* nothing else: no fetch result is kept, no message is sent or left to be
\* sent, no task and no row is written; the removed job is no longer in the
\* queue, and only a scheduled job fires
C15_OrphanJobDisarmsItself ==
    [][\A j \in JobIds, r \in FetchResults :
          ( /\ check_website(j, r)
            /\ ~HasTask(user_data, job_queue[j].user_id,
                        job_queue[j].task_name) ) =>
              /\ job_queue'[j] = FreeJob
              /\ \A k \in JobIds \ {j} : job_queue'[k] = job_queue[k]
              /\ ~running'[j].active
              /\ ~ev'.notified
              /\ user_data' = user_data
              /\ tasks_db' = tasks_db
              /\ jobs' = jobs]_vars

\* a firing has just found its task gone and removed its job
C15_Witness ==
    /\ ev.op = "check_website"
    /\ ev.outcome = "stopped"
    /\ \E j \in JobIds : ~job_queue[j].scheduled

C17_OneRegisteredJobPerKey ==
    ~InTerminalStep =>
        \A o \in Owners, n \in Names :
            /\ Cardinality(LiveJobs(job_queue, o, n)) <= 1
            /\ HasTask(user_data, o, n) =>
                 \A j \in LiveJobs(job_queue, o, n) :
                     /\ HasJobEntry(jobs, o, n)
                     /\ jobs[o].reg[n] = j

\* C18: no conversation step and no firing ends in an uncaught lookup error
\* (a missing owner entry, task, task field or session key); the only steps
\* that raise are the terminal steps whose table write sqlite refuses
C18_NoStepFailsOnMissingKey ==
    ev.raised => PersistFailed

\* C19: a firing for a stored task fetches the url and reads the selector of
\* the task's row, the pair the last completed Create or Update validated;
\* what an unfinished Update has been sent is not what the job fetches.
\* check_website reads the pair from user_data when it fires.
C19_PollFetchesStoredPair ==
    [][\A j \in JobIds, r \in FetchResults :
          LET o == job_queue[j].user_id
              n == job_queue[j].task_name
          IN  ( /\ check_website(j, r)
                /\ HasTask(user_data, o, n)
                /\ Row(o, n).has ) =>
                  /\ TaskOf(user_data, o, n).url = Row(o, n).url
                  /\ TaskOf(user_data, o, n).selector = Row(o, n).selector]_vars

\* C20: /cancel in an Update that has chosen its task leaves the task as it
\* was when the flow chose it (flow.before): the same url and selector in
\* user_data, the row and the scheduled jobs untouched by the step
C20_CancelledUpdateKeepsTask ==
    [][\A o \in Owners :
          LET n == context_user_data[o].task_to_update
          IN  ( /\ cancel(o)
                /\ ~InAdd(o) /\ ~InDelete(o) /\ InUpdate(o)
                /\ n # None
                /\ flow[o].before.has ) =>
                  /\ HasTask(user_data', o, n)
                  /\ TaskOf(user_data', o, n).url = flow[o].before.url
                  /\ TaskOf(user_data', o, n).selector = flow[o].before.selector
                  /\ tasks_db' = tasks_db
                  /\ job_queue' = job_queue
                  /\ jobs' = jobs]_vars

\* ------------------------------------------------------------------ C21
\* job j has been removed from the queue while an instance of it, for the
\* key (o, n), is suspended at its send
StalePoll(j, o, n) ==
    /\ running[j].active
    /\ running[j].user_id = o /\ running[j].task_name = n
    /\ ~job_queue[j].scheduled

\* C21: when an instance of the old job of a task resumes from its send
\* around the terminal step of an Update of that task, the snapshot of the
\* update's validation stays: if the terminal step is still suspended at
\* its reply, the entry, which that step stores in the row as it finds it,
\* keeps the extraction of the validation; if the step has just ended, the
\* entry and the row keep the snapshot it stored
C21_StalePollKeepsValidatedSnapshot ==
    [][\A j \in JobIds, sent \in BOOLEAN, o \in Owners, n \in Names :
          ( /\ check_website_sent(j, sent)
            /\ StalePoll(j, o, n)
            /\ HasTask(user_data, o, n) ) =>
              /\ ( /\ UpdateValidated(o, n)
                   /\ TaskOf(user_data, o, n).initial_state = awaiting.result ) =>
                     TaskOf(user_data', o, n).initial_state = awaiting.result
              /\ ( /\ UpdateDone
                   /\ Row(o, n).has
                   /\ TaskOf(user_data, o, n).initial_state =
                        Row(o, n).initial_state ) =>
                     /\ TaskOf(user_data', o, n).initial_state =
                          TaskOf(user_data, o, n).initial_state
                     /\ tasks_db'[o][n].initial_state =
                          Row(o, n).initial_state]_vars

====
